---- MODULE Spec2Model ----
(***************************************************************************)
(* Model of icao/pkcs8.js: conversion of an ECC private key (GP Key) to    *)
(* and from its PKCS#8 encoding.                                           *)
(*                                                                         *)
(* A ByteString is a sequence of numbers 0..255.  The ByteString,          *)
(* ByteBuffer, ASN1 and Key objects of the scripting host are modelled by  *)
(* what pkcs8.js uses of them.  A call that throws is the record           *)
(* [status |-> "error"] (or the value Thrown where a ByteString or an      *)
(* ASN1 object was expected).                                              *)
(***************************************************************************)
EXTENDS Integers, Sequences, FiniteSets, TLC

VARIABLES
    \* PKCS8.test: encode, decode, encode again
    pc, priKey, encodeCall, p8Key, shape, encodedKey, decodedKeyObject, refp8Key,
    \* point codec calls
    ppc, x, y, uncompressedPoint, coordinates,
    \* PKCS8.stripLeadingZeros, statement by statement
    spc, value, i, steps, readAt, stripped,
    \* interleaved calls: the global bb, the ByteBuffer objects, the calls
    bb, heap, tpc, targ, tpoint, tret

testVars  == <<pc, priKey, encodeCall, p8Key, shape, encodedKey, decodedKeyObject, refp8Key>>
pointVars == <<ppc, x, y, uncompressedPoint, coordinates>>
stripVars == <<spc, value, i, steps, readAt, stripped>>
callVars  == <<bb, heap, tpc, targ, tpoint, tret>>
vars == <<testVars, pointVars, stripVars, callVars>>

----------------------------------------------------------------------------
(* Bounds *)

\* longest key component / coordinate width drawn as an input
MaxLen == 2
\* longest input of stripLeadingZeros
MaxStripLen == 3
\* longest raw input of decodeUncompressedECPoint
MaxPointLen == 4

\* byte values the inputs are drawn from: both sides of the 0x80 test, zero, 0xFF
ByteVals == {0, 1, 127, 128, 255}

SeqsUpTo(S, n) == UNION {[1..k -> S] : k \in 0..n}

----------------------------------------------------------------------------
(* ByteString / ByteBuffer of the scripting host, as pkcs8.js uses them *)

\* what a call that throws leaves where a ByteString was expected
Thrown == <<-1>>

\* value.byteAt(i), zero based; -1 stands for the error of an index out of range
byteAt(bs, k) == IF k < 0 \/ k >= Len(bs) THEN -1 ELSE bs[k + 1]

\* value.bytes(offset, count); out of range throws
bytes(bs, offset, count) ==
    IF bs = Thrown \/ offset < 0 \/ count < 0 \/ offset + count > Len(bs)
    THEN Thrown
    ELSE SubSeq(bs, offset + 1, offset + count)

\* value.right(count): the rightmost count bytes
right(bs, count) == SubSeq(bs, Len(bs) - count + 1, Len(bs))

\* a ByteString used as a string: its hexadecimal digits, two per byte
toHexString(bs) ==
    [k \in 1..(2 * Len(bs)) |->
        IF k % 2 = 1 THEN bs[(k + 1) \div 2] \div 16 ELSE bs[k \div 2] % 16]

\* new ByteString(str, HEX)
ByteStringHEX(digits) ==
    [k \in 1..(Len(digits) \div 2) |-> 16 * digits[2 * k - 1] + digits[2 * k]]

\* a JavaScript number handed to a host method that takes an integer: the
\* fraction is dropped (num / den with den > 0, towards zero)
ToInt32(num, den) == IF num >= 0 THEN num \div den ELSE -((-num) \div den)

----------------------------------------------------------------------------
(* Point codec *)

\* the three appends of encodeUncompressedECPoint on a buffer holding buf
appendMarker(buf) == buf \o ByteStringHEX(<<0, 4>>)
appendCoordinate(buf, c) == buf \o ByteStringHEX(toHexString(c))

encodeUncompressedECPoint(px, py) ==
    appendCoordinate(appendCoordinate(appendMarker(<<>>), px), py)

\* the division by two left out
sizeOfCoordinate_notHalved(length) == ToInt32(length, 1)

\* var length = uncompressedPoint.length - 1; var sizeOfCoordinate = length / 2
sizeOfCoordinate(length) == ToInt32(length, 2)

decodeUncompressedECPoint(up) ==
    LET length == Len(up) - 1
        size   == sizeOfCoordinate(length)
        xValue == bytes(up, 1, size)
        yValue == bytes(up, 1 + size, size)
    IN  IF up = Thrown \/ xValue = Thrown \/ yValue = Thrown
        THEN [status |-> "error", x |-> <<>>, y |-> <<>>]
        ELSE [status |-> "ok", x |-> xValue, y |-> yValue]

----------------------------------------------------------------------------
(* stripLeadingZeros *)

\* the loop stopping one byte early: (i + 1 < value.length) && ...
stripLoopTest_offByOne(v, k) ==
    IF k + 1 < Len(v) THEN [goOn |-> byteAt(v, k) = 0, read |-> {k}]
    ELSE [goOn |-> FALSE, read |-> {}]

\* the loop test (i < value.length) && (value.byteAt(i) == 0): whether the loop
\* goes on, and the indexes it reads with byteAt (none when the first operand
\* is false)
stripLoopTest(v, k) ==
    IF k < Len(v) THEN [goOn |-> byteAt(v, k) = 0, read |-> {k}]
    ELSE [goOn |-> FALSE, read |-> {}]

RECURSIVE stripLoop(_, _)
\* the value of i when the loop started at k ends
stripLoop(v, k) == IF stripLoopTest(v, k).goOn THEN stripLoop(v, k + 1) ELSE k

stripLeadingZeros(v) == right(v, Len(v) - stripLoop(v, 0))

----------------------------------------------------------------------------
(* ASN1 objects of the scripting host: a tag and either a value (primitive) *)
(* or a list of child objects (constructed); getBytes is the DER encoding   *)

SEQUENCE == 48
INTEGER == 2
OCTET_STRING == 4
OBJECT_IDENTIFIER == 6

\* new ByteString("1.2.840.10045.2.1", OID) and new ByteString("1.2.840.10045.1.1", OID)
OID_ecPublicKey == <<42, 134, 72, 206, 61, 2, 1>>
OID_primeField  == <<42, 134, 72, 206, 61, 1, 1>>

\* what a call that throws leaves where an ASN1 object was expected
ThrownASN1 == [tag |-> -1, cons |-> FALSE, value |-> <<>>, children |-> <<>>]

\* new ASN1(tag, value)
ASN1Value(tag, val) == [tag |-> tag, cons |-> FALSE, value |-> val, children |-> <<>>]

\* new ASN1(tag) followed by add() of each of the children
ASN1List(tag, nodes) == [tag |-> tag, cons |-> TRUE, value |-> <<>>, children |-> nodes]

\* DER length octets
derLength(n) ==
    IF n < 128 THEN <<n>>
    ELSE IF n < 256 THEN <<129, n>>
    ELSE <<130, n \div 256, n % 256>>

RECURSIVE getBytes(_)
RECURSIVE contentBytes(_, _)
\* the encodings of nodes[k..] one after the other
contentBytes(nodes, k) ==
    IF k > Len(nodes) THEN <<>> ELSE getBytes(nodes[k]) \o contentBytes(nodes, k + 1)

\* asn.getBytes()
getBytes(node) ==
    LET content == IF node.cons THEN contentBytes(node.children, 1) ELSE node.value
    IN  <<node.tag>> \o derLength(Len(content)) \o content

\* the header of the TLV at the start of bs: the content's offset and length,
\* ok = FALSE when bs holds no complete TLV
tlvHeader(bs) ==
    IF Len(bs) < 2 THEN [ok |-> FALSE, off |-> 0, len |-> 0]
    ELSE LET l == bs[2]
             h == IF l < 128 THEN [ok |-> TRUE, off |-> 2, len |-> l]
                  ELSE IF l = 129 /\ Len(bs) >= 3 THEN [ok |-> TRUE, off |-> 3, len |-> bs[3]]
                  ELSE IF l = 130 /\ Len(bs) >= 4
                       THEN [ok |-> TRUE, off |-> 4, len |-> 256 * bs[3] + bs[4]]
                  ELSE [ok |-> FALSE, off |-> 0, len |-> 0]
         IN  IF h.ok /\ h.off + h.len <= Len(bs) THEN h
             ELSE [ok |-> FALSE, off |-> 0, len |-> 0]

RECURSIVE parseTLV(_)
RECURSIVE parseList(_)
\* the objects encoded one after the other in bs; <<ThrownASN1>> when malformed
parseList(bs) ==
    IF Len(bs) = 0 THEN <<>>
    ELSE LET h == tlvHeader(bs)
         IN  IF ~h.ok THEN <<ThrownASN1>>
             ELSE LET first == parseTLV(SubSeq(bs, 1, h.off + h.len))
                      rest  == parseList(SubSeq(bs, h.off + h.len + 1, Len(bs)))
                  IN  IF first = ThrownASN1 \/ (rest # <<>> /\ rest[1] = ThrownASN1)
                      THEN <<ThrownASN1>>
                      ELSE <<first>> \o rest

\* the object whose encoding is exactly bs
parseTLV(bs) ==
    LET h == tlvHeader(bs)
    IN  IF ~h.ok \/ h.off + h.len # Len(bs) THEN ThrownASN1
        ELSE LET content == SubSeq(bs, h.off + 1, h.off + h.len)
             IN  IF (bs[1] \div 32) % 2 = 1
                 THEN LET kids == parseList(content)
                      IN  IF kids # <<>> /\ kids[1] = ThrownASN1 THEN ThrownASN1
                          ELSE ASN1List(bs[1], kids)
                 ELSE ASN1Value(bs[1], content)

\* new ASN1(bytes)
newASN1(bs) == IF bs = Thrown THEN ThrownASN1 ELSE parseTLV(bs)

\* asn.get(index): the child at the zero based index
get(node, index) ==
    IF node = ThrownASN1 \/ ~node.cons \/ index < 0 \/ index >= Len(node.children)
    THEN ThrownASN1
    ELSE node.children[index + 1]

\* asn.value: the content octets
valueOf(node) ==
    IF node = ThrownASN1 THEN Thrown
    ELSE IF node.cons THEN contentBytes(node.children, 1)
    ELSE node.value

----------------------------------------------------------------------------
(* PKCS8 key codec *)

PRIVATE == "PRIVATE"
PUBLIC  == "PUBLIC"

Components == {"D", "H", "P", "A", "B", "GX", "GY", "N"}

\* the 0x00 added whatever the first byte is
signedInteger_alwaysPadded(comp) == ASN1Value(INTEGER, ByteStringHEX(<<0, 0>>) \o comp)

\* the test written > 0x80
signedInteger_above0x80(comp) ==
    IF byteAt(comp, 0) > 128
    THEN ASN1Value(INTEGER, ByteStringHEX(<<0, 0>>) \o comp)
    ELSE ASN1Value(INTEGER, comp)

\* the INTEGER of P or N: lines 130-135 and 157-162
signedInteger(comp) ==
    IF byteAt(comp, 0) >= 128
    THEN ASN1Value(INTEGER, ByteStringHEX(<<0, 0>>) \o comp)
    ELSE ASN1Value(INTEGER, comp)

\* the INTEGER of the cofactor: line 123
cofactorInteger(h) == ASN1Value(INTEGER, stripLeadingZeros(h))

\* the two OCTET STRINGs of the coefficients: lines 140-146
coeffSequence(a, b) ==
    ASN1List(SEQUENCE, <<ASN1Value(OCTET_STRING, a), ASN1Value(OCTET_STRING, b)>>)

\* the tree encodeKeyUsingPKCS8Format builds from the key k once the base
\* point has been encoded as point
buildPrivateKeyInfo(k, point) ==
    LET field == ASN1List(SEQUENCE,
                    <<ASN1Value(OBJECT_IDENTIFIER, OID_primeField), signedInteger(k.P)>>)
        domainInfo == ASN1List(SEQUENCE,
                    <<cofactorInteger(k.H), field, coeffSequence(k.A, k.B),
                      ASN1Value(OCTET_STRING, point), signedInteger(k.N)>>)
        privateKeyAlgorithm == ASN1List(SEQUENCE,
                    <<ASN1Value(OBJECT_IDENTIFIER, OID_ecPublicKey), domainInfo>>)
        key == ASN1List(SEQUENCE,
                    <<ASN1Value(INTEGER, ByteStringHEX(<<0, 1>>)), ASN1Value(OCTET_STRING, k.D)>>)
        encodedPrivateKey == ASN1List(OCTET_STRING, <<key>>)
    IN  ASN1List(SEQUENCE,
            <<ASN1Value(INTEGER, ByteStringHEX(<<0, 0>>)), privateKeyAlgorithm, encodedPrivateKey>>)

RECURSIVE countNodes(_)
RECURSIVE countNodesIn(_, _)
countNodesIn(nodes, k) ==
    IF k > Len(nodes) THEN 0 ELSE countNodes(nodes[k]) + countNodesIn(nodes, k + 1)
\* how many ASN1 objects a tree holds
countNodes(node) == 1 + (IF node.cons THEN countNodesIn(node.children, 1) ELSE 0)

\* the assertion left out
assertPrivate_skipped(k) == TRUE

\* assert(privateKey.getType() == Key.PRIVATE)
assertPrivate(k) == k.type = PRIVATE

\* the outcome of a call that was stopped by the assertion or by a thrown error
Failed(how) == [status |-> how, bytes |-> <<>>, tree |-> ThrownASN1, read |-> {}, built |-> 0]

\* encodeKeyUsingPKCS8Format with the point encoding handed in; read is the
\* set of components fetched with getComponent, built the number of ASN1
\* objects constructed
encodeKeyWithPoint(k, point) ==
    IF ~assertPrivate(k) THEN Failed("AssertionError")
    ELSE IF Len(k.P) = 0 \/ Len(k.N) = 0 THEN Failed("error")
    ELSE LET tree == buildPrivateKeyInfo(k, point)
         IN  [status |-> "ok", bytes |-> getBytes(tree), tree |-> tree,
              read |-> Components, built |-> countNodes(tree)]

encodeKeyUsingPKCS8Format(k) ==
    encodeKeyWithPoint(k, encodeUncompressedECPoint(k.GX, k.GY))

\* what decodeKeyFromPKCS8Format stores as P and as N (order.value, groupOrder.value)
decodedInteger(node) == valueOf(node)

decodeKeyFromPKCS8Format(bs) ==
    LET p8 == newASN1(bs)
        privKeyBlock == get(p8, 2)
        inner == newASN1(valueOf(privKeyBlock))
        d == valueOf(get(inner, 1))
        domainParameter == get(get(p8, 1), 1)
        cofactor == valueOf(get(domainParameter, 0))
        order == decodedInteger(get(get(domainParameter, 1), 1))
        coeff_A == valueOf(get(get(domainParameter, 2), 0))
        coeff_B == valueOf(get(get(domainParameter, 2), 1))
        generatorPoint == valueOf(get(domainParameter, 3))
        coords == decodeUncompressedECPoint(generatorPoint)
        groupOrder == decodedInteger(get(domainParameter, 4))
    IN  IF Thrown \in {d, cofactor, order, coeff_A, coeff_B, generatorPoint, groupOrder}
           \/ coords.status # "ok"
        THEN [status |-> "error", key |-> [type |-> "none"]]
        ELSE [status |-> "ok",
              key |-> [type |-> PRIVATE, D |-> d, H |-> cofactor, P |-> order,
                       A |-> coeff_A, B |-> coeff_B,
                       GX |-> coords.x, GY |-> coords.y, N |-> groupOrder]]

----------------------------------------------------------------------------
(* Inputs *)

\* P and N: a first byte on either side of 0x80, then 0x01 bytes
IntVals == {<<f>> \o [k \in 1..n |-> 1] : f \in ByteVals, n \in 0..(MaxLen - 1)}

\* H: with and without leading zero bytes, also all zero and empty
CofactorVals == SeqsUpTo({0, 1, 128}, MaxLen)

\* D, A, B: raw octets
RawVals == {<<0>>, <<128, 0>>, <<0, 255>>}

\* GX, GY: of equal width
CoordinatePairs(S, n) == UNION {[1..w -> S] \X [1..w -> S] : w \in 0..n}

BaseKey == [type |-> PRIVATE, D |-> <<17>>, H |-> <<1>>, P |-> <<255, 1>>,
            A |-> <<125>>, B |-> <<38, 220>>, GX |-> <<139, 210>>, GY |-> <<84, 126>>,
            N |-> <<169, 251>>]

IntegerKeys ==
    {[BaseKey EXCEPT !.P = p, !.N = n, !.H = h] :
        p \in IntVals, n \in IntVals, h \in CofactorVals}

RawKeys ==
    {[BaseKey EXCEPT !.D = d, !.A = a, !.B = b, !.GX = g[1], !.GY = g[2]] :
        d \in RawVals, a \in RawVals, b \in RawVals, g \in CoordinatePairs({0, 255}, MaxLen)}

PublicKeys == {[k EXCEPT !.type = PUBLIC] : k \in RawKeys}

Keys == IntegerKeys \cup RawKeys \cup PublicKeys

\* trees that do not follow the schema of encodeKeyUsingPKCS8Format
RECURSIVE nodeAt(_, _)
nodeAt(node, path) == IF path = <<>> THEN node ELSE nodeAt(node.children[Head(path)], Tail(path))

RECURSIVE replaceAt(_, _, _)
replaceAt(node, path, new) ==
    IF path = <<>> THEN new
    ELSE [node EXCEPT !.children[Head(path)] = replaceAt(@, Tail(path), new)]

Shapes == {"cofactorAsOctetString", "pointAsInteger", "coeffWithThreeChildren",
           "domainWithSixChildren", "fieldAsLeaf", "rootWithoutPrivateKey",
           "privateKeyNotNested"}

Reshape(tree, s) ==
    LET domain == <<2, 2>>
        retag(path, tag) == replaceAt(tree, path, [nodeAt(tree, path) EXCEPT !.tag = tag])
        grow(path) == replaceAt(tree, path,
                        [nodeAt(tree, path) EXCEPT !.children = @ \o <<ASN1Value(INTEGER, <<1>>)>>])
    IN  CASE s = "cofactorAsOctetString" -> retag(domain \o <<1>>, OCTET_STRING)
          [] s = "pointAsInteger" -> retag(domain \o <<4>>, INTEGER)
          [] s = "coeffWithThreeChildren" -> grow(domain \o <<3>>)
          [] s = "domainWithSixChildren" -> grow(domain)
          [] s = "fieldAsLeaf" -> replaceAt(tree, domain \o <<2>>, ASN1Value(INTEGER, <<1>>))
          [] s = "rootWithoutPrivateKey" -> [tree EXCEPT !.children = SubSeq(@, 1, 2)]
          [] s = "privateKeyNotNested" ->
                replaceAt(tree, <<3>>, ASN1Value(OCTET_STRING, nodeAt(tree, <<3, 1, 2>>).value))

----------------------------------------------------------------------------
(* The calls of PKCS8.test, and decode applied to other trees *)

NoCall == Failed("none")
NoKey == [status |-> "none", key |-> [type |-> "none"]]

IdleTest ==
    /\ pc = "idle" /\ priKey = BaseKey /\ encodeCall = NoCall /\ p8Key = <<>>
    /\ shape = "none" /\ encodedKey = <<>> /\ decodedKeyObject = NoKey /\ refp8Key = NoCall
IdlePoint ==
    /\ ppc = "idle" /\ x = <<>> /\ y = <<>> /\ uncompressedPoint = <<>>
    /\ coordinates = [status |-> "none", x |-> <<>>, y |-> <<>>]
IdleStrip ==
    /\ spc = "idle" /\ value = <<>> /\ i = 0 /\ steps = 0 /\ readAt = {} /\ stripped = <<>>
IdleCalls ==
    /\ bb = 0 /\ heap = <<>> /\ tpc = <<>> /\ targ = <<>> /\ tpoint = <<>> /\ tret = <<>>

Init ==
    /\ pc = "start" /\ priKey \in Keys /\ encodeCall = NoCall /\ p8Key = <<>>
    /\ shape = "none" /\ encodedKey = <<>> /\ decodedKeyObject = NoKey /\ refp8Key = NoCall
    /\ IdlePoint /\ IdleStrip /\ IdleCalls

\* var p8Key = PKCS8.encodeKeyUsingPKCS8Format(priKey)
Encode ==
    /\ pc = "start"
    /\ encodeCall' = encodeKeyUsingPKCS8Format(priKey)
    /\ p8Key' = IF encodeCall'.status = "ok" THEN encodeCall'.bytes ELSE p8Key
    /\ pc' = IF encodeCall'.status = "ok" THEN "encoded" ELSE "failed"
    /\ UNCHANGED <<priKey, shape, encodedKey, decodedKeyObject, refp8Key>>
    /\ UNCHANGED <<pointVars, stripVars, callVars>>

\* var decodedKeyObject = PKCS8.decodeKeyFromPKCS8Format(p8Key)
Decode ==
    /\ pc = "encoded"
    /\ shape' = "schema"
    /\ encodedKey' = p8Key
    /\ decodedKeyObject' = decodeKeyFromPKCS8Format(p8Key)
    /\ pc' = "decoded"
    /\ UNCHANGED <<priKey, encodeCall, p8Key, refp8Key>>
    /\ UNCHANGED <<pointVars, stripVars, callVars>>

\* decodeKeyFromPKCS8Format on the encoding of a tree of another shape
DecodeOther ==
    /\ pc = "encoded"
    /\ \E s \in Shapes :
        /\ shape' = s
        /\ encodedKey' = getBytes(Reshape(encodeCall.tree, s))
    /\ decodedKeyObject' = decodeKeyFromPKCS8Format(encodedKey')
    /\ pc' = "decodedOther"
    /\ UNCHANGED <<priKey, encodeCall, p8Key, refp8Key>>
    /\ UNCHANGED <<pointVars, stripVars, callVars>>

\* var refp8Key = PKCS8.encodeKeyUsingPKCS8Format(decodedKeyObject)
EncodeAgain ==
    /\ pc = "decoded"
    /\ decodedKeyObject.status = "ok"
    /\ refp8Key' = encodeKeyUsingPKCS8Format(decodedKeyObject.key)
    /\ pc' = "done"
    /\ UNCHANGED <<priKey, encodeCall, p8Key, shape, encodedKey, decodedKeyObject>>
    /\ UNCHANGED <<pointVars, stripVars, callVars>>

Next == Encode \/ Decode \/ DecodeOther \/ EncodeAgain

Spec == Init /\ [][Next]_vars

----------------------------------------------------------------------------
(* The point codec on its own *)

InitPoint ==
    /\ \/ /\ ppc = "start"
          /\ \E g \in CoordinatePairs(ByteVals, MaxLen) : x = g[1] /\ y = g[2]
          /\ uncompressedPoint = <<>>
       \/ /\ ppc = "raw"
          /\ x = <<>> /\ y = <<>>
          /\ uncompressedPoint \in SeqsUpTo(ByteVals, MaxPointLen)
    /\ coordinates = [status |-> "none", x |-> <<>>, y |-> <<>>]
    /\ IdleTest /\ IdleStrip /\ IdleCalls

EncodePoint ==
    /\ ppc = "start"
    /\ uncompressedPoint' = encodeUncompressedECPoint(x, y)
    /\ ppc' = "encoded"
    /\ UNCHANGED <<x, y, coordinates, testVars, stripVars, callVars>>

DecodePoint ==
    /\ ppc = "encoded"
    /\ coordinates' = decodeUncompressedECPoint(uncompressedPoint)
    /\ ppc' = "decoded"
    /\ UNCHANGED <<x, y, uncompressedPoint, testVars, stripVars, callVars>>

\* decodeUncompressedECPoint on bytes that encodeUncompressedECPoint did not make
DecodeRawPoint ==
    /\ ppc = "raw"
    /\ coordinates' = decodeUncompressedECPoint(uncompressedPoint)
    /\ ppc' = "rawDecoded"
    /\ UNCHANGED <<x, y, uncompressedPoint, testVars, stripVars, callVars>>

NextPoint == EncodePoint \/ DecodePoint \/ DecodeRawPoint

SpecPoint == InitPoint /\ [][NextPoint]_vars

----------------------------------------------------------------------------
(* stripLeadingZeros, one evaluation of the loop test at a time *)

InitStrip ==
    /\ spc = "loop" /\ value \in SeqsUpTo(ByteVals, MaxStripLen)
    /\ i = 0 /\ steps = 0 /\ readAt = {} /\ stripped = <<>>
    /\ IdleTest /\ IdlePoint /\ IdleCalls

\* the loop test holds: i++
StripLoopStep ==
    /\ spc = "loop"
    /\ stripLoopTest(value, i).goOn
    /\ readAt' = readAt \cup stripLoopTest(value, i).read
    /\ i' = i + 1
    /\ steps' = steps + 1
    /\ UNCHANGED <<spc, value, stripped, testVars, pointVars, callVars>>

\* the loop test fails: the loop is left
StripLoopExit ==
    /\ spc = "loop"
    /\ ~stripLoopTest(value, i).goOn
    /\ readAt' = readAt \cup stripLoopTest(value, i).read
    /\ spc' = "return"
    /\ UNCHANGED <<value, i, steps, stripped, testVars, pointVars, callVars>>

\* return value.right(value.length - i)
StripReturn ==
    /\ spc = "return"
    /\ stripped' = right(value, Len(value) - i)
    /\ spc' = "done"
    /\ UNCHANGED <<value, i, steps, readAt, testVars, pointVars, callVars>>

NextStrip == StripLoopStep \/ StripLoopExit \/ StripReturn

SpecStrip == InitStrip /\ [][NextStrip]_vars

----------------------------------------------------------------------------
(* Calls interleaved statement by statement.  bb is assigned without var in  *)
(* encodeUncompressedECPoint (line 48): it is a property of the global       *)
(* object, heap holds the ByteBuffer objects, bb the index of the one the    *)
(* global names.  The statements of a call that touch only its own locals    *)
(* are taken in one step.                                                    *)

Threads == {1, 2}

CallKeys == {BaseKey,
             [BaseKey EXCEPT !.GX = <<1, 2>>, !.GY = <<3, 4>>],
             [BaseKey EXCEPT !.type = PUBLIC]}

Calls == [op : {"encode", "decode"}, key : CallKeys]

\* what the call returns when it runs alone
Alone(call) ==
    IF call.op = "encode" THEN encodeKeyUsingPKCS8Format(call.key).bytes
    ELSE decodeKeyFromPKCS8Format(encodeKeyUsingPKCS8Format(call.key).bytes)

InitCalls ==
    /\ bb = 0 /\ heap = <<>>
    /\ tpc = [t \in Threads |-> "call"]
    /\ targ \in [Threads -> Calls]
    /\ tpoint = [t \in Threads |-> <<>>]
    /\ tret = [t \in Threads |-> <<>>]
    /\ IdleTest /\ IdlePoint /\ IdleStrip

\* decodeKeyFromPKCS8Format: every variable is a local
CallDecode(t) ==
    /\ tpc[t] = "call" /\ targ[t].op = "decode"
    /\ tret' = [tret EXCEPT ![t] =
                    decodeKeyFromPKCS8Format(encodeKeyUsingPKCS8Format(targ[t].key).bytes)]
    /\ tpc' = [tpc EXCEPT ![t] = "done"]
    /\ UNCHANGED <<bb, heap, targ, tpoint>>
    /\ UNCHANGED <<testVars, pointVars, stripVars>>

\* encodeKeyUsingPKCS8Format, lines 110-152, up to the call of encodeUncompressedECPoint
CallEncode(t) ==
    /\ tpc[t] = "call" /\ targ[t].op = "encode"
    /\ IF assertPrivate(targ[t].key)
       THEN tpc' = [tpc EXCEPT ![t] = "L48"] /\ tret' = tret
       ELSE tpc' = [tpc EXCEPT ![t] = "done"] /\ tret' = [tret EXCEPT ![t] = <<>>]
    /\ UNCHANGED <<bb, heap, targ, tpoint>>
    /\ UNCHANGED <<testVars, pointVars, stripVars>>

\* bb = new ByteBuffer()
L48(t) ==
    /\ tpc[t] = "L48"
    /\ heap' = Append(heap, <<>>)
    /\ bb' = Len(heap) + 1
    /\ tpc' = [tpc EXCEPT ![t] = "L51"]
    /\ UNCHANGED <<targ, tpoint, tret>>
    /\ UNCHANGED <<testVars, pointVars, stripVars>>

\* bb.append(new ByteString("04", HEX))
L51(t) ==
    /\ tpc[t] = "L51"
    /\ heap' = [heap EXCEPT ![bb] = appendMarker(@)]
    /\ tpc' = [tpc EXCEPT ![t] = "L52"]
    /\ UNCHANGED <<bb, targ, tpoint, tret>>
    /\ UNCHANGED <<testVars, pointVars, stripVars>>

\* bb.append(new ByteString(x, HEX))
L52(t) ==
    /\ tpc[t] = "L52"
    /\ heap' = [heap EXCEPT ![bb] = appendCoordinate(@, targ[t].key.GX)]
    /\ tpc' = [tpc EXCEPT ![t] = "L53"]
    /\ UNCHANGED <<bb, targ, tpoint, tret>>
    /\ UNCHANGED <<testVars, pointVars, stripVars>>

\* bb.append(new ByteString(y, HEX))
L53(t) ==
    /\ tpc[t] = "L53"
    /\ heap' = [heap EXCEPT ![bb] = appendCoordinate(@, targ[t].key.GY)]
    /\ tpc' = [tpc EXCEPT ![t] = "L55"]
    /\ UNCHANGED <<bb, targ, tpoint, tret>>
    /\ UNCHANGED <<testVars, pointVars, stripVars>>

\* return bb.toByteString()
L55(t) ==
    /\ tpc[t] = "L55"
    /\ tpoint' = [tpoint EXCEPT ![t] = heap[bb]]
    /\ tpc' = [tpc EXCEPT ![t] = "L154"]
    /\ UNCHANGED <<bb, heap, targ, tret>>
    /\ UNCHANGED <<testVars, pointVars, stripVars>>

\* encodeKeyUsingPKCS8Format, lines 154-181, with the point that came back
L154(t) ==
    /\ tpc[t] = "L154"
    /\ tret' = [tret EXCEPT ![t] = encodeKeyWithPoint(targ[t].key, tpoint[t]).bytes]
    /\ tpc' = [tpc EXCEPT ![t] = "done"]
    /\ UNCHANGED <<bb, heap, targ, tpoint>>
    /\ UNCHANGED <<testVars, pointVars, stripVars>>

NextCalls ==
    \E t \in Threads :
        \/ CallDecode(t) \/ CallEncode(t)
        \/ L48(t) \/ L51(t) \/ L52(t) \/ L53(t) \/ L55(t) \/ L154(t)

SpecCalls == InitCalls /\ [][NextCalls]_vars

----------------------------------------------------------------------------
(* Properties *)

NumericComponents == {"D", "GX", "GY", "A", "B", "P", "N"}

\* the INTEGER values found in the encoding p8Key, by position
EncodedCofactor == valueOf(get(get(get(newASN1(p8Key), 1), 1), 0))
EncodedPrime    == valueOf(get(get(get(get(newASN1(p8Key), 1), 1), 1), 1))
EncodedOrder    == valueOf(get(get(get(newASN1(p8Key), 1), 1), 4))
EncodedCoeffA   == valueOf(get(get(get(get(newASN1(p8Key), 1), 1), 2), 0))
EncodedCoeffB   == valueOf(get(get(get(get(newASN1(p8Key), 1), 1), 2), 1))

\* comp with 0x00 in front when its first byte is >= 0x80
SignPadded(comp) == IF comp # <<>> /\ comp[1] >= 128 THEN <<0>> \o comp ELSE comp

\* v without its leading zero bytes: the suffix after the first j bytes, all
\* of them zero, that is empty or starts with a non-zero byte
IsStrippedOf(s, v) ==
    \E j \in 0..Len(v) :
        /\ s = SubSeq(v, j + 1, Len(v))
        /\ \A k \in 1..j : v[k] = 0
        /\ (s = <<>> \/ s[1] # 0)

\* C1: decode(encode(k)) returns a key whose D, GX, GY, A, B, P and N equal
\* those of k byte for byte and whose H is k's H without its leading zeros.
C1_RoundTripIdentity ==
    pc = "decoded" =>
        /\ decodedKeyObject.status = "ok"
        /\ \A c \in NumericComponents : decodedKeyObject.key[c] = priKey[c]
        /\ IsStrippedOf(decodedKeyObject.key.H, priKey.H)

\* C2: encode(decode(encode(k))) is byte-identical to encode(k): the second
\* encode passes the PRIVATE check, builds the same INTEGERs for P, N and H
\* and returns the same bytes.
C2_ReencodeStable ==
    pc = "done" =>
        /\ decodedKeyObject.key.type = PRIVATE
        /\ refp8Key.status = "ok"
        /\ refp8Key.bytes = p8Key
        /\ refp8Key.tree = encodeCall.tree

C2_Witness ==
    /\ pc = "done"
    /\ priKey.P[1] >= 128 /\ priKey.N[1] >= 128
    /\ Len(priKey.H) = 2 /\ priKey.H[1] = 0

\* C4: the primeOrModulus INTEGER is 0x00 followed by P iff the first byte of
\* P is >= 0x80 and P itself otherwise; the same, independently, for the
\* order INTEGER and N; the first byte of either value is below 0x80.
C4_SignPadding ==
    pc = "encoded" =>
        /\ (priKey.P[1] >= 128) <=> (EncodedPrime = <<0>> \o priKey.P)
        /\ (priKey.P[1] < 128) => (EncodedPrime = priKey.P)
        /\ (priKey.N[1] >= 128) <=> (EncodedOrder = <<0>> \o priKey.N)
        /\ (priKey.N[1] < 128) => (EncodedOrder = priKey.N)
        /\ EncodedPrime[1] < 128 /\ EncodedOrder[1] < 128

C4_Witness ==
    /\ pc = "encoded"
    /\ priKey.P = <<255, 1>> /\ EncodedPrime = <<0, 255, 1>>
    /\ priKey.N = <<127>> /\ EncodedOrder = <<127>>

\* C5: the cofactor INTEGER is H without its leading zeros, with 0x00 in
\* front when the first byte left is >= 0x80; A and B are emitted as stored.
C5_CofactorSignPadding ==
    pc = "encoded" =>
        /\ \E s \in {SubSeq(priKey.H, j + 1, Len(priKey.H)) : j \in 0..Len(priKey.H)} :
            /\ IsStrippedOf(s, priKey.H)
            /\ EncodedCofactor = SignPadded(s)
        /\ EncodedCoeffA = priKey.A
        /\ EncodedCoeffB = priKey.B

\* C6: with a PUBLIC key encode stops at the assertion, having read no
\* component and built no node, and returns no encoding; with a PRIVATE key
\* the assertion never stops it.
C6_PublicKeyRejected ==
    pc # "start" =>
        /\ priKey.type = PUBLIC =>
            /\ pc = "failed"
            /\ encodeCall.status = "AssertionError"
            /\ encodeCall.read = {} /\ encodeCall.built = 0
            /\ p8Key = <<>>
        /\ priKey.type = PRIVATE =>
            /\ encodeCall.status = "ok"
            /\ encodeCall.read = Components /\ encodeCall.built > 0

C6_Witness == pc = "failed" /\ priKey.type = PUBLIC /\ encodeCall.status = "AssertionError"

\* C7: decode never returns a Key for a tree that does not match the schema
\* of encode.
C7_MismatchRejected ==
    pc = "decodedOther" => decodedKeyObject.status # "ok"

\* C3: encodeUncompressedECPoint(x, y) is 0x04, then x, then y, and
\* decodeUncompressedECPoint of it returns exactly (x, y).
C3_PointInverse ==
    /\ ppc \in {"encoded", "decoded"} =>
        /\ uncompressedPoint = <<4>> \o x \o y
        /\ Len(uncompressedPoint) = 1 + Len(x) + Len(y)
    /\ ppc = "decoded" =>
        coordinates = [status |-> "ok", x |-> x, y |-> y]

C3_Witness ==
    /\ ppc = "decoded" /\ x = <<128, 0>> /\ y = <<0, 255>>
    /\ coordinates.x = <<128, 0>> /\ coordinates.y = <<0, 255>>

\* C10: on an input of length 1 + 2n decodeUncompressedECPoint returns the
\* two halves of the input after its first byte, whatever that byte is; on
\* an input whose length minus one is odd it returns no (x, y).
C10_PointDecode ==
    (ppc = "rawDecoded" /\ Len(uncompressedPoint) >= 1) =>
        LET n == (Len(uncompressedPoint) - 1) \div 2
        IN  IF (Len(uncompressedPoint) - 1) % 2 = 0
            THEN /\ coordinates.status = "ok"
                 /\ coordinates.x = SubSeq(uncompressedPoint, 2, 1 + n)
                 /\ coordinates.y = SubSeq(uncompressedPoint, 2 + n, 1 + 2 * n)
                 /\ coordinates.x \o coordinates.y = Tail(uncompressedPoint)
            ELSE coordinates.status # "ok"

\* C9: stripLeadingZeros returns the longest suffix that does not start with
\* a zero byte (empty for an all-zero input), is idempotent, and its loop takes
\* at most |v| steps and reads no index outside v.
C9_StripLeadingZeros ==
    /\ readAt \subseteq 0..(Len(value) - 1)
    /\ steps <= Len(value) /\ i <= Len(value)
    /\ spc = "done" =>
        /\ IsStrippedOf(stripped, value)
        /\ (\A k \in 1..Len(value) : value[k] = 0) => stripped = <<>>
        /\ value = <<0, 1, 255>> => stripped = <<1, 255>>
        /\ stripLeadingZeros(value) = stripped
        /\ stripLeadingZeros(stripped) = stripped

C9_Witness == spc = "done" /\ value = <<0, 1, 255>> /\ stripped = <<1, 255>> /\ steps = 1

\* C8: every call returns what it returns when it runs alone, whatever the
\* interleaving with the other calls.
C8_CallsIndependent ==
    \A t \in Threads : tpc[t] = "done" => tret[t] = Alone(targ[t])

====
